---- MODULE Spec2Model ----
(***************************************************************************)
(* rbd-mirror ImageDeleter (src/tools/rbd_mirror/ImageDeleter.cc).         *)
(*                                                                         *)
(* The state is the scheduler's three positions (m_delete_queue,           *)
(* m_active_delete, m_failed_queue), the worker thread's position in       *)
(* run(), the destructor's position, the events registered on the          *)
(* deferred timer and the completions handed to the work queue.  Every     *)
(* region the code runs under m_delete_lock is one atomic action; a        *)
(* Cond::Wait splits the region at the wait.  enqueue_failed_delete is     *)
(* split at its Lock(), its Unlock() and its timer-lock acquisition, with  *)
(* the owners of m_delete_lock and of the timer lock kept as state, and    *)
(* the timer thread takes the timer lock before it runs the callback.      *)
(***************************************************************************)
EXTENDS Integers, Sequences, FiniteSets, TLC

\* ---------------------------------------------------------------- bounds
MaxWaits   == 2      \* calls of wait_for_scheduled_deletion
MaxRetries == 1      \* an entry that has this many retries is not deferred again

\* ------------------------------------------------------- program constants
ESTALE       == -116   \* wait_for_scheduled_deletion, displaced waiter
ECANCELED    == -125   \* cancel_waiter
EBLACKLISTED == -108   \* enqueue_failed_delete
EIO          == -5     \* a remove-pipeline failure that is not the blacklisted one

ERROR_RESULT_COMPLETE          == "COMPLETE"
ERROR_RESULT_RETRY_IMMEDIATELY == "RETRY_IMMEDIATELY"
ERROR_RESULT_RETRY             == "RETRY"
ErrorResult == {ERROR_RESULT_COMPLETE, ERROR_RESULT_RETRY_IMMEDIATELY,
                ERROR_RESULT_RETRY}

\* (local_pool_id, global_image_id) of the images the callers name
Identities == {<<1, "a">>, <<1, "b">>}
\* the (local_pool_id, global_image_id, ignore_orphaned) of the calls of
\* schedule_image_delete
ScheduleCalls == {<<1, "a", FALSE>>, <<1, "a", TRUE>>, <<1, "b", FALSE>>}
\* the (local_pool_id, global_image_id, notify_on_failed_retry) of the calls
\* of wait_for_scheduled_deletion
WaitCalls == {<<1, "a", FALSE>>, <<1, "a", TRUE>>, <<1, "b", FALSE>>}
\* the values of rbd_mirror_delete_retry_interval and the arguments of
\* set_failed_timer_interval, in seconds
Intervals == {30, 60}
\* results r < 0 the remove-pipeline hands to remove_ctx
ErrCodes == {EIO, EBLACKLISTED}

NoDelete == [none |-> TRUE]   \* an empty unique_ptr<DeleteInfo>
NullCtx  == 0                 \* on_delete == nullptr
Nowhere  == [pos |-> "null", idx |-> 0]   \* find_delete_info's nullptr

VARIABLES
  m_running,        \* cleared by the destructor
  m_delete_queue,   \* deque of DeleteInfo, front = index 1
  m_active_delete,  \* DeleteInfo or NoDelete
  m_failed_queue,   \* deque of DeleteInfo, front = index 1
  pc,               \* the worker thread's position in run()
  r,                \* process_image_delete: result of the last remove_ctx.wait()
  error_result,     \* process_image_delete: classifier of the last failure
  was_empty,        \* enqueue_failed_delete: local was_empty
  timer_events,     \* events registered on m_failed_timer and not yet fired
  work_queue,       \* per caller context, the results m_work_queue->queue was
                    \* handed for it, in order
  dtor_pc,          \* the destructor's position
  nwait,            \* calls of wait_for_scheduled_deletion so far
  m_delete_lock,    \* the thread that holds m_delete_lock, or "free"
  m_failed_timer_lock,  \* the thread that holds *m_failed_timer_lock, or "free"
  m_failed_interval,    \* the delay of the retry timer event
  on_finish         \* per caller context, the results the work queue's thread
                    \* has run the caller's callback with, in order

vars == <<m_running, m_delete_queue, m_active_delete, m_failed_queue, pc, r,
          error_result, was_empty, timer_events, work_queue, dtor_pc,
          nwait, m_delete_lock, m_failed_timer_lock, m_failed_interval,
          on_finish>>

queues  == <<m_delete_queue, m_active_delete, m_failed_queue>>
locals  == <<r, error_result, was_empty>>
locks   == <<m_delete_lock, m_failed_timer_lock>>
\* what no step of the worker, the timer, the destructor or the calls of
\* schedule_image_delete, wait_for_scheduled_deletion and cancel_waiter
\* writes
extern  == <<m_failed_interval, on_finish>>

\* ----------------------------------------------------------- DeleteInfo
\* DeleteInfo's constructor.  older is history, no field of the code: the
\* identities that were in m_delete_queue when the entry was created and that
\* the worker has not claimed since.
NewDeleteInfo(local_pool_id, global_image_id, ignore_orphaned, older) ==
  [local_pool_id |-> local_pool_id, global_image_id |-> global_image_id,
   ignore_orphaned |-> ignore_orphaned, on_delete |-> NullCtx,
   notify_on_failed_retry |-> FALSE, error_code |-> 0, retries |-> 0,
   older |-> older]

Identity(info) == <<info.local_pool_id, info.global_image_id>>

Claimed(info, q) ==
  [i \in DOMAIN q |-> [q[i] EXCEPT !.older = @ \ {Identity(info)}]]

\* DeleteInfo::match
match(info, local_pool_id, global_image_id) ==
  /\ info.local_pool_id = local_pool_id
  /\ info.global_image_id = global_image_id

\* The FunctionContext of wait_for_scheduled_deletion: completing it queues
\* the caller's context with the result on the work queue.
complete_without_queue(ctx, res, wq) == wq

complete(ctx, res, wq) == [wq EXCEPT ![ctx] = Append(@, res)]

notify_keeps_ctx(info, res, wq) ==
  IF info.on_delete # NullCtx
    THEN [info |-> info, wq |-> complete(info.on_delete, res, wq)]
    ELSE [info |-> info, wq |-> wq]

\* DeleteInfo::notify
notify(info, res, wq) ==
  IF info.on_delete # NullCtx
    THEN [info |-> [info EXCEPT !.on_delete = NullCtx],
          wq   |-> complete(info.on_delete, res, wq)]
    ELSE [info |-> info, wq |-> wq]

\* ------------------------------------------------------ find_delete_info
FirstMatch(q, local_pool_id, global_image_id) ==
  LET hits == {i \in DOMAIN q : match(q[i], local_pool_id, global_image_id)}
  IN  IF hits = {} THEN 0 ELSE CHOOSE i \in hits : \A j \in hits : i <= j

find_delete_info_skips_failed(local_pool_id, global_image_id) ==
  IF /\ m_active_delete # NoDelete
     /\ match(m_active_delete, local_pool_id, global_image_id)
    THEN [pos |-> "active", idx |-> 0]
  ELSE IF FirstMatch(m_delete_queue, local_pool_id, global_image_id) # 0
    THEN [pos |-> "queue",
          idx |-> FirstMatch(m_delete_queue, local_pool_id, global_image_id)]
  ELSE Nowhere

find_delete_info(local_pool_id, global_image_id) ==
  IF /\ m_active_delete # NoDelete
     /\ match(m_active_delete, local_pool_id, global_image_id)
    THEN [pos |-> "active", idx |-> 0]
  ELSE IF FirstMatch(m_delete_queue, local_pool_id, global_image_id) # 0
    THEN [pos |-> "queue",
          idx |-> FirstMatch(m_delete_queue, local_pool_id, global_image_id)]
  ELSE IF FirstMatch(m_failed_queue, local_pool_id, global_image_id) # 0
    THEN [pos |-> "failed",
          idx |-> FirstMatch(m_failed_queue, local_pool_id, global_image_id)]
  ELSE Nowhere

\* *del_info
Deref(del_info) ==
  CASE del_info.pos = "active" -> m_active_delete
    [] del_info.pos = "queue"  -> m_delete_queue[del_info.idx]
    [] del_info.pos = "failed" -> m_failed_queue[del_info.idx]

\* a write through del_info
Store(del_info, info) ==
  /\ m_active_delete' =
       IF del_info.pos = "active" THEN info ELSE m_active_delete
  /\ m_delete_queue' =
       IF del_info.pos = "queue"
         THEN [m_delete_queue EXCEPT ![del_info.idx] = info]
         ELSE m_delete_queue
  /\ m_failed_queue' =
       IF del_info.pos = "failed"
         THEN [m_failed_queue EXCEPT ![del_info.idx] = info]
         ELSE m_failed_queue

Signal_lost(at) == at

\* m_delete_queue_cond.Signal(): a worker parked in Cond::Wait becomes runnable
Signal(at) ==
  CASE at = "wait_empty" -> "woken_empty"
    [] at = "wait_retry" -> "woken_retry"
    [] OTHER             -> at

\* The locals of process_image_delete and enqueue_failed_delete hold nothing
\* outside the calls.
NoLocals == r = 0 /\ error_result = ERROR_RESULT_RETRY /\ was_empty = FALSE

ResetLocals ==
  r' = 0 /\ error_result' = ERROR_RESULT_RETRY /\ was_empty' = FALSE

\* m_delete_lock.Lock(), Mutex::Locker(m_delete_lock) and the return of
\* Cond::Wait: the thread goes on once nobody holds the lock
Lock == m_delete_lock = "free"

\* The object's member functions are called only while it is alive and its
\* destructor has not begun.
Alive == dtor_pc = "idle"

\* ------------------------------------------------------------------ Init
Init ==
  /\ m_running = TRUE
  /\ m_delete_queue = <<>>
  /\ m_active_delete = NoDelete
  /\ m_failed_queue = <<>>
  /\ pc = "loop"
  /\ NoLocals
  /\ timer_events = 0
  /\ work_queue = [ctx \in 1..MaxWaits |-> <<>>]
  /\ dtor_pc = "idle"
  /\ nwait = 0
  /\ m_delete_lock = "free"
  /\ m_failed_timer_lock = "free"
  /\ m_failed_interval = 30
  /\ on_finish = [ctx \in 1..MaxWaits |-> <<>>]

\* ------------------------------------------------------------ public API
schedule_push_back(q, info) == Append(q, info)

\* m_delete_queue.push_front(new DeleteInfo(...))
schedule_push(q, info) == <<info>> \o q

set_ignore_orphaned_assigns(info, ignore_orphaned) ==
  [info EXCEPT !.ignore_orphaned = ignore_orphaned]

\* if (ignore_orphaned) { (*del_info)->ignore_orphaned = true; }
set_ignore_orphaned(info, ignore_orphaned) ==
  IF ignore_orphaned THEN [info EXCEPT !.ignore_orphaned = TRUE] ELSE info

schedule_image_delete_signals(local_pool_id, global_image_id, ignore_orphaned) ==
  /\ Alive
  /\ Lock
  /\ LET del_info == find_delete_info(local_pool_id, global_image_id) IN
       IF del_info # Nowhere
         THEN Store(del_info,
                    set_ignore_orphaned(Deref(del_info), ignore_orphaned))
         ELSE /\ m_delete_queue' =
                   schedule_push(m_delete_queue,
                                 NewDeleteInfo(local_pool_id, global_image_id,
                                               ignore_orphaned,
                                               {Identity(m_delete_queue[i]) :
                                                  i \in DOMAIN m_delete_queue}))
              /\ UNCHANGED <<m_active_delete, m_failed_queue>>
  /\ pc' = Signal(pc)
  /\ UNCHANGED <<extern, m_running, locals, timer_events, work_queue, dtor_pc,
                 nwait, locks>>

schedule_image_delete(local_pool_id, global_image_id, ignore_orphaned) ==
  /\ Alive
  /\ Lock
  /\ LET del_info == find_delete_info(local_pool_id, global_image_id) IN
       IF del_info # Nowhere
         THEN /\ Store(del_info,
                       set_ignore_orphaned(Deref(del_info), ignore_orphaned))
              /\ pc' = pc
         ELSE /\ m_delete_queue' =
                   schedule_push(m_delete_queue,
                                 NewDeleteInfo(local_pool_id, global_image_id,
                                               ignore_orphaned,
                                               {Identity(m_delete_queue[i]) :
                                                  i \in DOMAIN m_delete_queue}))
              /\ pc' = Signal(pc)
              /\ UNCHANGED <<m_active_delete, m_failed_queue>>
  /\ UNCHANGED <<extern, m_running, locals, timer_events, work_queue, dtor_pc,
                 nwait, locks>>

wait_for_scheduled_deletion_drops(local_pool_id, global_image_id, ctx, notify_on_failed_retry) ==
  /\ Alive
  /\ Lock
  /\ nwait < MaxWaits
  /\ ctx = nwait + 1
  /\ nwait' = nwait + 1
  /\ LET del_info == find_delete_info(local_pool_id, global_image_id) IN
       IF del_info = Nowhere
         THEN UNCHANGED <<work_queue, queues>>
         ELSE /\ work_queue' =
                   IF Deref(del_info).on_delete # NullCtx
                     THEN complete(Deref(del_info).on_delete, ESTALE, work_queue)
                     ELSE work_queue
              /\ Store(del_info,
                       [Deref(del_info) EXCEPT
                          !.on_delete = ctx,
                          !.notify_on_failed_retry = notify_on_failed_retry])
  /\ UNCHANGED <<extern, m_running, pc, locals, timer_events, dtor_pc, locks>>

wait_for_scheduled_deletion(local_pool_id, global_image_id, ctx, notify_on_failed_retry) ==
  /\ Alive
  /\ Lock
  /\ nwait < MaxWaits
  /\ ctx = nwait + 1
  /\ nwait' = nwait + 1
  /\ LET del_info == find_delete_info(local_pool_id, global_image_id) IN
       IF del_info = Nowhere
         THEN /\ work_queue' = complete(ctx, 0, work_queue)
              /\ UNCHANGED queues
         ELSE /\ work_queue' =
                   IF Deref(del_info).on_delete # NullCtx
                     THEN complete(Deref(del_info).on_delete, ESTALE, work_queue)
                     ELSE work_queue
              /\ Store(del_info,
                       [Deref(del_info) EXCEPT
                          !.on_delete = ctx,
                          !.notify_on_failed_retry = notify_on_failed_retry])
  /\ UNCHANGED <<extern, m_running, pc, locals, timer_events, dtor_pc, locks>>

detach_keeps_ctx(info) == info

\* (*del_info)->on_delete = nullptr
detach(info) == [info EXCEPT !.on_delete = NullCtx]

cancel_waiter_removes(local_pool_id, global_image_id) ==
  /\ Alive
  /\ Lock
  /\ LET del_info == find_delete_info(local_pool_id, global_image_id) IN
       IF del_info # Nowhere /\ Deref(del_info).on_delete # NullCtx
         THEN /\ work_queue' =
                   complete(Deref(del_info).on_delete, ECANCELED, work_queue)
              /\ IF del_info.pos = "queue"
                   THEN /\ m_delete_queue' =
                             SubSeq(m_delete_queue, 1, del_info.idx - 1)
                               \o SubSeq(m_delete_queue, del_info.idx + 1,
                                         Len(m_delete_queue))
                        /\ UNCHANGED <<m_active_delete, m_failed_queue>>
                   ELSE Store(del_info, detach(Deref(del_info)))
         ELSE UNCHANGED <<work_queue, queues>>
  /\ UNCHANGED <<extern, m_running, pc, locals, timer_events, dtor_pc, nwait,
                 locks>>

cancel_waiter(local_pool_id, global_image_id) ==
  /\ Alive
  /\ Lock
  /\ LET del_info == find_delete_info(local_pool_id, global_image_id) IN
       IF del_info # Nowhere /\ Deref(del_info).on_delete # NullCtx
         THEN /\ work_queue' =
                   complete(Deref(del_info).on_delete, ECANCELED, work_queue)
              /\ Store(del_info, detach(Deref(del_info)))
         ELSE UNCHANGED <<work_queue, queues>>
  /\ UNCHANGED <<extern, m_running, pc, locals, timer_events, dtor_pc, nwait,
                 locks>>

\* this->m_failed_interval = interval, with no lock taken
set_failed_timer_interval(interval) ==
  /\ Alive
  /\ m_failed_interval' = interval
  /\ UNCHANGED <<m_running, queues, pc, locals, timer_events, work_queue,
                 dtor_pc, nwait, locks, on_finish>>

\* ------------------------------------------------------------- work queue
\* The work queue's thread runs the caller's callback with the oldest result
\* queued for it that it has not run yet.
ContextWQ_process(ctx) ==
  /\ Len(on_finish[ctx]) < Len(work_queue[ctx])
  /\ on_finish' =
       [on_finish EXCEPT
          ![ctx] = Append(@, work_queue[ctx][Len(on_finish[ctx]) + 1])]
  /\ UNCHANGED <<m_running, queues, pc, locals, timer_events, work_queue,
                 dtor_pc, nwait, locks, m_failed_interval>>

\* ---------------------------------------------------------- worker thread
claim_front(q) ==
  [active |-> [q[1] EXCEPT !.older = {}],
   queue  |-> Claimed(q[1], SubSeq(q, 2, Len(q)))]

\* m_active_delete = std::move(m_delete_queue.back()); m_delete_queue.pop_back()
claim(q) ==
  [active |-> [q[Len(q)] EXCEPT !.older = {}],
   queue  |-> Claimed(q[Len(q)], SubSeq(q, 1, Len(q) - 1))]

\* while (m_running)
run_loop ==
  /\ pc = "loop"
  /\ pc' = IF m_running THEN "lock" ELSE "done"
  /\ ResetLocals
  /\ UNCHANGED <<extern, m_running, queues, timer_events, work_queue, dtor_pc,
                 nwait, locks>>

\* Lock; an empty queue parks the worker in Cond::Wait, otherwise it claims
\* the back entry and unlocks.
run_lock ==
  /\ pc = "lock"
  /\ Lock
  /\ IF m_delete_queue = <<>>
       THEN /\ pc' = "wait_empty"
            /\ UNCHANGED queues
       ELSE /\ m_active_delete' = claim(m_delete_queue).active
            /\ m_delete_queue' = claim(m_delete_queue).queue
            /\ pc' = "process"
            /\ UNCHANGED m_failed_queue
  /\ UNCHANGED <<extern, m_running, locals, timer_events, work_queue, dtor_pc, nwait,
                 locks>>

\* Cond::Wait returns with the lock held: leave when not running, wait again
\* on an empty queue, otherwise claim.
run_wake ==
  /\ pc = "woken_empty"
  /\ Lock
  /\ IF ~m_running
       THEN /\ pc' = "done"
            /\ UNCHANGED queues
       ELSE IF m_delete_queue = <<>>
         THEN /\ pc' = "wait_empty"
              /\ UNCHANGED queues
         ELSE /\ m_active_delete' = claim(m_delete_queue).active
              /\ m_delete_queue' = claim(m_delete_queue).queue
              /\ pc' = "process"
              /\ UNCHANGED m_failed_queue
  /\ UNCHANGED <<extern, m_running, locals, timer_events, work_queue, dtor_pc, nwait,
                 locks>>

complete_active_delete_silent(res) ==
  /\ m_active_delete' = NoDelete
  /\ UNCHANGED <<work_queue, m_delete_queue, m_failed_queue>>

\* complete_active_delete(res)
complete_active_delete(res) ==
  /\ work_queue' = notify(m_active_delete, res, work_queue).wq
  /\ m_active_delete' = NoDelete
  /\ UNCHANGED <<m_delete_queue, m_failed_queue>>

Unlock_after_add_event(lock) == lock

\* m_delete_lock.Unlock()
Unlock(lock) == "free"

move_to_failed_notifies(error_code) ==
  LET n == notify(m_active_delete, error_code, work_queue)
  IN  /\ work_queue' = n.wq
      /\ was_empty' = (m_failed_queue = <<>>)
      /\ m_failed_queue' =
           <<[n.info EXCEPT !.error_code = error_code]>> \o m_failed_queue
      /\ m_active_delete' = NoDelete
      /\ m_delete_lock' = Unlock(m_delete_lock)
      /\ pc' = "add_event"
      /\ UNCHANGED <<m_delete_queue, m_failed_timer_lock>>

\* lines 316-322, with the lock held: notify when asked to, record the error,
\* move the active entry to the front of m_failed_queue, unlock
move_to_failed(error_code) ==
  LET n == IF m_active_delete.notify_on_failed_retry
             THEN notify(m_active_delete, error_code, work_queue)
             ELSE [info |-> m_active_delete, wq |-> work_queue]
  IN  /\ work_queue' = n.wq
      /\ was_empty' = (m_failed_queue = <<>>)
      /\ m_failed_queue' =
           <<[n.info EXCEPT !.error_code = error_code]>> \o m_failed_queue
      /\ m_active_delete' = NoDelete
      /\ m_delete_lock' = Unlock(m_delete_lock)
      /\ pc' = "add_event"
      /\ UNCHANGED <<m_delete_queue, m_failed_timer_lock>>

\* line 315: m_delete_lock.Lock()
enqueue_failed_delete_lock ==
  /\ m_delete_lock' = "worker"
  /\ pc' = "enqueue_failed"
  /\ UNCHANGED <<queues, work_queue, was_empty, m_failed_timer_lock>>

enqueue_failed_delete_retries_blacklisted(error_code) ==
  enqueue_failed_delete_lock

\* enqueue_failed_delete(error_code), up to the acquisition of m_delete_lock
enqueue_failed_delete(error_code) ==
  IF error_code = EBLACKLISTED
    THEN /\ complete_active_delete(error_code)
         /\ pc' = "loop"
         /\ UNCHANGED <<was_empty, locks>>
    ELSE enqueue_failed_delete_lock

\* enqueue_failed_delete(error_code) with m_delete_lock held, up to its release
enqueue_failed_delete_locked ==
  /\ pc = "enqueue_failed"
  /\ m_delete_lock = "worker"
  /\ move_to_failed(r)
  /\ UNCHANGED <<extern, m_running, r, error_result, timer_events, dtor_pc, nwait>>

requeue_back(q, info) == Append(q, info)

\* m_delete_queue.push_front(std::move(m_active_delete))
requeue(q, info) == <<info>> \o q

\* the failures that move the active entry to m_failed_queue
Deferred(res, cls) ==
  /\ cls \notin {ERROR_RESULT_COMPLETE, ERROR_RESULT_RETRY_IMMEDIATELY}
  /\ res # EBLACKLISTED

\* process_image_delete for a remove-pipeline call that returns res < 0 with
\* classifier cls
process_image_delete_failed(res, cls) ==
  /\ pc = "process"
  /\ Lock
  /\ Deferred(res, cls) => m_active_delete.retries < MaxRetries
  /\ r' = res
  /\ error_result' = cls
  /\ IF cls = ERROR_RESULT_COMPLETE
       THEN /\ complete_active_delete(res)
            /\ pc' = "loop"
            /\ UNCHANGED <<was_empty, locks>>
     ELSE IF cls = ERROR_RESULT_RETRY_IMMEDIATELY
       THEN LET n == notify(m_active_delete, res, work_queue) IN
            /\ work_queue' = n.wq
            /\ m_delete_queue' = requeue(m_delete_queue, n.info)
            /\ m_active_delete' = NoDelete
            /\ pc' = "retry_check"
            /\ UNCHANGED <<m_failed_queue, was_empty, locks>>
     ELSE enqueue_failed_delete(res)
  /\ UNCHANGED <<extern, m_running, timer_events, dtor_pc, nwait>>

\* process_image_delete for a remove-pipeline call that returns 0
process_image_delete_ok ==
  /\ pc = "process"
  /\ Lock
  /\ r' = 0
  /\ complete_active_delete(0)
  /\ pc' = "loop"
  /\ UNCHANGED <<extern, m_running, error_result, was_empty, timer_events, dtor_pc,
                 nwait, locks>>

add_event_always(empty_before, events) == events + 1

add_event_after_inverted(empty_before, events) ==
  IF empty_before THEN events ELSE events + 1

\* if (was_empty) m_failed_timer->add_event_after(...)
add_event_after(empty_before, events) ==
  IF empty_before THEN events + 1 ELSE events

\* line 326: Mutex::Locker l(*m_failed_timer_lock)
enqueue_failed_delete_timer_lock ==
  /\ pc = "add_event"
  /\ was_empty
  /\ m_failed_timer_lock = "free"
  /\ m_failed_timer_lock' = "worker"
  /\ UNCHANGED <<extern, m_running, queues, pc, locals, timer_events, work_queue,
                 dtor_pc, nwait, m_delete_lock>>

\* the rest of enqueue_failed_delete: the event is registered under the timer
\* lock when the failed deque was empty, and nothing is done otherwise
enqueue_failed_delete_timer ==
  /\ pc = "add_event"
  /\ was_empty => m_failed_timer_lock = "worker"
  /\ timer_events' = add_event_after(was_empty, timer_events)
  /\ m_failed_timer_lock' = IF was_empty THEN "free" ELSE m_failed_timer_lock
  /\ pc' = "loop"
  /\ ResetLocals
  /\ UNCHANGED <<extern, m_running, queues, work_queue, dtor_pc, nwait, m_delete_lock>>

\* move_to_next is false: if (!m_running) return
run_retry_check ==
  /\ pc = "retry_check"
  /\ pc' = IF m_running THEN "retry_lock" ELSE "done"
  /\ ResetLocals
  /\ UNCHANGED <<extern, m_running, queues, timer_events, work_queue, dtor_pc,
                 nwait, locks>>

\* Lock; if (m_delete_queue.size() == 1) Wait
run_retry_lock ==
  /\ pc = "retry_lock"
  /\ Lock
  /\ pc' = IF Len(m_delete_queue) = 1 THEN "wait_retry" ELSE "loop"
  /\ UNCHANGED <<extern, m_running, queues, locals, timer_events, work_queue, dtor_pc,
                 nwait, locks>>

\* that wait returns; the Locker unlocks and the loop continues
run_retry_wake ==
  /\ pc = "woken_retry"
  /\ Lock
  /\ pc' = "loop"
  /\ UNCHANGED <<extern, m_running, queues, locals, timer_events, work_queue, dtor_pc,
                 nwait, locks>>

\* ------------------------------------------------------------ timer thread
drain_front_first(failed, pending) ==
  pending \o [i \in 1..Len(failed) |-> [failed[i] EXCEPT !.retries = @ + 1]]

RECURSIVE drain(_, _)
\* the while loop of retry_failed_deletions
drain(failed, pending) ==
  IF failed = <<>> THEN pending
  ELSE drain(SubSeq(failed, 1, Len(failed) - 1),
             Append(pending,
                    [failed[Len(failed)] EXCEPT !.retries = @ + 1]))

\* The timer's thread takes the timer lock and calls the event's callback
\* with the lock held.
timer_thread ==
  /\ timer_events > 0
  /\ dtor_pc # "destroyed"
  /\ m_failed_timer_lock = "free"
  /\ m_failed_timer_lock' = "timer"
  /\ UNCHANGED <<extern, m_running, queues, pc, locals, timer_events, work_queue,
                 dtor_pc, nwait, m_delete_lock>>

\* the callback; the event is done and the timer lock is released when it
\* returns
retry_failed_deletions ==
  /\ m_failed_timer_lock = "timer"
  /\ dtor_pc # "destroyed"
  /\ Lock
  /\ timer_events' = timer_events - 1
  /\ m_failed_timer_lock' = "free"
  /\ m_delete_queue' = drain(m_failed_queue, m_delete_queue)
  /\ m_failed_queue' = <<>>
  /\ pc' = IF m_failed_queue # <<>> THEN Signal(pc) ELSE pc
  /\ UNCHANGED <<extern, m_running, m_active_delete, locals, work_queue, dtor_pc,
                 nwait, m_delete_lock>>

\* -------------------------------------------------------------- destructor
\* m_running = false
dtor_stop ==
  /\ dtor_pc = "idle"
  /\ m_running' = FALSE
  /\ dtor_pc' = "signal"
  /\ UNCHANGED <<extern, queues, pc, locals, timer_events, work_queue, nwait,
                 locks>>

\* { Mutex::Locker l(m_delete_lock); m_delete_queue_cond.Signal(); }
dtor_signal ==
  /\ dtor_pc = "signal"
  /\ Lock
  /\ pc' = Signal(pc)
  /\ dtor_pc' = "join"
  /\ UNCHANGED <<extern, m_running, queues, locals, timer_events, work_queue, nwait,
                 locks>>

\* m_image_deleter_thread.join() returns once run() has returned; the members
\* are destroyed after the body, and the queues drop their entries
dtor_join ==
  /\ dtor_pc = "join"
  /\ pc = "done"
  /\ dtor_pc' = "destroyed"
  /\ m_delete_queue' = <<>>
  /\ m_failed_queue' = <<>>
  /\ m_active_delete' = NoDelete
  /\ UNCHANGED <<extern, m_running, pc, locals, timer_events, work_queue, nwait,
                 locks>>

\* ----------------------------------------------------------- specification
Worker ==
  \/ run_loop
  \/ run_lock
  \/ run_wake
  \/ process_image_delete_ok
  \/ \E res \in ErrCodes, cls \in ErrorResult :
       process_image_delete_failed(res, cls)
  \/ enqueue_failed_delete_locked
  \/ enqueue_failed_delete_timer_lock
  \/ enqueue_failed_delete_timer
  \/ run_retry_check
  \/ run_retry_lock
  \/ run_retry_wake

Callers ==
  \/ \E call \in ScheduleCalls :
       schedule_image_delete(call[1], call[2], call[3])
  \/ \E call \in WaitCalls, ctx \in 1..MaxWaits :
       wait_for_scheduled_deletion(call[1], call[2], ctx, call[3])
  \/ \E id \in Identities : cancel_waiter(id[1], id[2])

Destructor == dtor_stop \/ dtor_signal \/ dtor_join

Timer == timer_thread \/ retry_failed_deletions

Next == Worker \/ Callers \/ Timer \/ Destructor

Spec == Init /\ [][Next]_vars

\* The callers and the worker with the thread of the work queue.  The runs of
\* the callbacks change nothing of the scheduler, which is why Spec leaves
\* them out; the timer thread and the destructor, which complete no callback,
\* are left out here.
NextWorkQueue ==
  Worker \/ Callers \/ \E ctx \in 1..MaxWaits : ContextWQ_process(ctx)

SpecWorkQueue == Init /\ [][NextWorkQueue]_vars

\* The scheduler with the callers of set_failed_timer_interval.  The interval
\* is the delay of the timer event, which fires at any time in the model.
NextInterval ==
  Next \/ \E interval \in Intervals : set_failed_timer_interval(interval)

SpecInterval == Init /\ [][NextInterval]_vars

\* The scheduler before its teardown.  The timer service fires every
\* registered event, the timer thread gets the locks it asks for, and the
\* worker, once in enqueue_failed_delete, runs it to its end.
RetryFairness ==
  /\ WF_vars(timer_thread)
  /\ WF_vars(retry_failed_deletions)
  /\ WF_vars(enqueue_failed_delete_locked)
  /\ WF_vars(enqueue_failed_delete_timer_lock)
  /\ WF_vars(enqueue_failed_delete_timer)

NextRetry == Worker \/ Callers \/ Timer

SpecRetry == Init /\ [][NextRetry]_vars /\ RetryFairness

\* The remove-pipeline always returns 0 and the scheduler is not torn down;
\* the worker thread keeps being scheduled and every remove-pipeline call
\* completes.
WorkerSuccess == run_loop \/ run_lock \/ run_wake \/ process_image_delete_ok

NextSuccess == WorkerSuccess \/ Callers

SpecSuccess == Init /\ [][NextSuccess]_vars /\ WF_vars(WorkerSuccess)

\* ------------------------------------------------------------- vocabulary
Contexts == 1..MaxWaits

\* the entries in the three positions
Entries ==
  {m_delete_queue[i] : i \in DOMAIN m_delete_queue}
    \cup {m_failed_queue[i] : i \in DOMAIN m_failed_queue}
    \cup (IF m_active_delete = NoDelete THEN {} ELSE {m_active_delete})

\* how many DeleteInfo match the identity, over the three positions
Matches(id) ==
  Cardinality({i \in DOMAIN m_delete_queue : match(m_delete_queue[i], id[1], id[2])})
  + Cardinality({i \in DOMAIN m_failed_queue : match(m_failed_queue[i], id[1], id[2])})
  + (IF m_active_delete # NoDelete /\ match(m_active_delete, id[1], id[2])
       THEN 1 ELSE 0)

Present(id) == Matches(id) > 0

\* the identities of the entries whose on_delete is ctx
Holder(ctx) == {Identity(e) : e \in {x \in Entries : x.on_delete = ctx}}

Installed(ctx) == Holder(ctx) # {}

AllEmpty ==
  m_delete_queue = <<>> /\ m_failed_queue = <<>> /\ m_active_delete = NoDelete

\* ------------------------------------------------------------------- C1
\* C1: for every identity (local_pool_id, global_image_id), at most one
\* DeleteInfo matches it over the active slot, the pending deque and the
\* failed deque, in every reachable state.
C1_Deduplication == \A id \in Identities : Matches(id) <= 1

\* Both identities are scheduled, one entry waits in the failed deque after a
\* retry of the other, which is active again: schedule calls met entries in
\* more than one position.
C1_Witness ==
  /\ Len(m_failed_queue) = 1
  /\ m_active_delete # NoDelete
  /\ m_active_delete.retries = 1
  /\ m_failed_queue[1].ignore_orphaned

\* ------------------------------------------------------------------- C2
\* A context that is installed on an entry has not been completed, and no
\* context is completed twice.
C2_AtMostOnce ==
  \A ctx \in Contexts :
    /\ Len(work_queue[ctx]) <= 1
    /\ Installed(ctx) => work_queue[ctx] = <<>>

\* A wait_for_scheduled_deletion call that installs its context on an entry
\* whose on_delete is old: old is completed with -ESTALE and is installed
\* nowhere afterwards.
C2_Displaced ==
  \A old \in Contexts :
    (/\ nwait' = nwait + 1
     /\ Installed(old)
     /\ Holder(nwait + 1)' = Holder(old))
    => /\ work_queue'[old] = <<ESTALE>>
       /\ ~Installed(old)'

C3_TeardownTerminates ==
  ~(/\ dtor_pc = "join"
    /\ pc \in {"wait_empty", "wait_retry"}
    /\ timer_events = 0)

\* ------------------------------------------------------------------- C4
\* the step of process_image_delete's RetryImmediately branch
RetryImmediatelyStep == pc = "process" /\ pc' = "retry_check"

\* what work_queue is after the context of info, if any, is completed with res
Delivered(info, res) ==
  [ctx \in Contexts |->
     IF ctx = info.on_delete THEN Append(work_queue[ctx], res)
                             ELSE work_queue[ctx]]

\* C4 as claimed: a waiter installed with notify_on_failed_retry unset is not
\* completed by the RetryImmediately failure and stays installed on the
\* re-pushed entry, so that the final result 0 reaches it.
C4_WaiterKeptForFinalResult ==
  [][(/\ RetryImmediatelyStep
      /\ r' = EIO
      /\ m_active_delete.on_delete # NullCtx
      /\ ~m_active_delete.notify_on_failed_retry)
     => /\ work_queue' = work_queue
        /\ m_delete_queue'[1].on_delete = m_active_delete.on_delete]_vars

\* The RetryImmediately failure completes the waiter with the error, whatever
\* notify_on_failed_retry is, and re-pushes the entry, its callback slot
\* cleared, at the front of the pending deque.
C4_Requeued ==
  RetryImmediatelyStep
  => /\ m_delete_queue' =
          <<[m_active_delete EXCEPT !.on_delete = NullCtx]>> \o m_delete_queue
     /\ m_active_delete' = NoDelete
     /\ m_failed_queue' = m_failed_queue
     /\ work_queue' = Delivered(m_active_delete, r')
     /\ r' < 0

\* With the re-pushed entry the only pending one the worker waits on the
\* condition variable, and leaves the wait only when it is signalled.
C4_Parks ==
  /\ (pc = "retry_lock" /\ pc' # pc)
     => pc' = IF Len(m_delete_queue) = 1 THEN "wait_retry" ELSE "loop"
  /\ (pc = "wait_retry" /\ pc' # pc)
     => /\ pc' = "woken_retry"
        /\ \/ Len(m_delete_queue') > Len(m_delete_queue)
           \/ dtor_pc = "signal" /\ dtor_pc' = "join"

\* The attempt that returns 0 drops the entry; with no waiter installed since
\* the failure nothing is delivered.
C4_FinalSuccess ==
  (pc = "process" /\ pc' = "loop" /\ r' = 0)
  => /\ m_active_delete' = NoDelete
     /\ \A id \in {Identity(m_active_delete)} : ~Present(id)'
     /\ work_queue' = Delivered(m_active_delete, 0)
     /\ (m_active_delete.on_delete = NullCtx => work_queue' = work_queue)

\* C4, amended: the waiter receives the RetryImmediately error at once and is
\* detached, the entry is re-pushed at the front, the worker waits while it is
\* the only pending entry, and the later success drops the entry and delivers
\* 0 only to a waiter installed after the failure.
C4_RetryImmediately == [][C4_Requeued /\ C4_Parks /\ C4_FinalSuccess]_vars

\* The only waiter, installed with notify_on_failed_retry unset, has received
\* -5 from a RetryImmediately failure; the entry is back in the pending deque
\* without a callback.
C4_Witness ==
  /\ pc = "retry_check"
  /\ r = EIO /\ error_result = ERROR_RESULT_RETRY_IMMEDIATELY
  /\ nwait = 1 /\ work_queue[1] = <<EIO>>
  /\ Len(m_delete_queue) = 1 /\ m_failed_queue = <<>>
  /\ m_delete_queue[1].on_delete = NullCtx
  /\ ~m_delete_queue[1].notify_on_failed_retry

\* ------------------------------------------------------------------- C5
\* ctx is installed on an entry that the step drops from all positions
Dropped(ctx) ==
  /\ Installed(ctx)
  /\ \A id \in Holder(ctx) : ~Present(id)'

Pending(id) ==
  \E i \in DOMAIN m_delete_queue : match(m_delete_queue[i], id[1], id[2])

Active(id) ==
  m_active_delete # NoDelete /\ match(m_active_delete, id[1], id[2])

\* C5: with every remove-pipeline call returning 0 and no teardown, every
\* entry is eventually claimed and then dropped; a waiter still installed when
\* its entry is dropped receives 0, and every installed waiter receives a
\* result; once no new entry is created the three positions end up empty.
C5_SuccessLiveness ==
  /\ \A id \in Identities : Pending(id) ~> Active(id)
  /\ \A id \in Identities : Active(id) ~> ~Present(id)
  /\ \A ctx \in Contexts : Installed(ctx) ~> (work_queue[ctx] # <<>>)
  /\ [][\A ctx \in Contexts : Dropped(ctx) => work_queue'[ctx] = <<0>>]_vars
  /\ (<>[][Len(m_delete_queue') <= Len(m_delete_queue)]_vars => <>[]AllEmpty)

\* The second waiter displaced the first and received 0 when its entry
\* completed; everything is drained.
C5_Witness ==
  /\ AllEmpty
  /\ work_queue[1] = <<ESTALE>>
  /\ work_queue[2] = <<0>>

\* ------------------------------------------------------------------- C6
\* a remove-pipeline call has just failed with -EBLACKLISTED
BlacklistedReturn ==
  pc = "process" /\ pc' # "process" /\ r' = EBLACKLISTED

TreatedAsComplete ==
  /\ m_active_delete' = NoDelete
  /\ m_delete_queue' = m_delete_queue
  /\ m_failed_queue' = m_failed_queue
  /\ work_queue' = Delivered(m_active_delete, EBLACKLISTED)
  /\ pc' = "loop"
  /\ timer_events' = timer_events

\* C6 as claimed: for every classifier a -EBLACKLISTED failure is treated as
\* Complete.
C6_BlacklistedAlwaysComplete == [][BlacklistedReturn => TreatedAsComplete]_vars

\* C6, amended: a -EBLACKLISTED failure is treated as Complete when the
\* classifier is Complete or Other (waiter completed with the code, entry
\* dropped, not re-pushed, not deferred, no timer); with the classifier
\* RetryImmediately the entry is re-pushed at the front of the pending deque.
C6_BlacklistedTerminal ==
  [][BlacklistedReturn
     => IF error_result' = ERROR_RESULT_RETRY_IMMEDIATELY
          THEN /\ pc' = "retry_check"
               /\ m_delete_queue' =
                    <<[m_active_delete EXCEPT !.on_delete = NullCtx]>>
                      \o m_delete_queue
          ELSE TreatedAsComplete]_vars

\* A waiter has received -EBLACKLISTED from a failure classified Other.
C6_Witness ==
  /\ pc = "loop"
  /\ r = EBLACKLISTED /\ error_result = ERROR_RESULT_RETRY
  /\ \E ctx \in Contexts : work_queue[ctx] = <<EBLACKLISTED>>
  /\ timer_events = 0 /\ m_failed_queue = <<>>

\* ------------------------------------------------------------------- C7
C7_Registers ==
  /\ Len(m_failed_queue') > Len(m_failed_queue)
     => /\ pc' = "add_event"
        /\ was_empty' = (m_failed_queue = <<>>)
  /\ (timer_events' > timer_events)
     <=> (pc = "add_event" /\ pc' = "loop" /\ was_empty)
  /\ timer_events' <= timer_events + 1

\* C7: enqueue_failed_delete registers a retry timer event if and only if the
\* failed deque was empty right before its insertion, and at most one retry
\* timer event is outstanding in every reachable state.
C7_SingleTimer == [](timer_events <= 1) /\ [][C7_Registers]_vars

\* A second failure was absorbed by the timer event of the first.
C7_Witness ==
  /\ timer_events = 1
  /\ Len(m_failed_queue) = 2
  /\ pc = "loop"

\* ------------------------------------------------------------------- C8
\* the worker moves an entry from the pending deque into the active slot
ClaimStep == m_active_delete = NoDelete /\ m_active_delete' # NoDelete

\* C8 as claimed: a newer entry preempts the older pending ones, so the
\* worker never claims an entry while an entry created behind it in time,
\* when it was already pending, is still pending.
C8_NewestFirst ==
  [][ClaimStep
     => \A i \in DOMAIN m_delete_queue :
          Identity(m_active_delete') \notin m_delete_queue[i].older]_vars

\* C8, amended: the worker claims in arrival order; when it claims an entry,
\* every entry that was pending when that entry was created has been claimed
\* before, so a new deletion waits for all older pending ones.
C8_OldestFirst ==
  [][ClaimStep
     => \A i \in DOMAIN m_delete_queue :
          Identity(m_delete_queue[i]) = Identity(m_active_delete')
            => m_delete_queue[i].older = {}]_vars

\* B was created while A was pending, and the worker is about to claim.
C8_Witness ==
  /\ pc = "lock"
  /\ Len(m_delete_queue) = 2
  /\ Identity(m_delete_queue[2]) \in m_delete_queue[1].older
  /\ m_delete_queue[1].retries = 0 /\ m_delete_queue[2].retries = 0

\* ------------------------------------------------------------------- C9
\* C9 as claimed: by whatever path an entry with a callback leaves the three
\* positions, destruction included, the callback is completed exactly once.
C9_NeverDroppedUnfired ==
  [][\A ctx \in Contexts : Dropped(ctx) => Len(work_queue'[ctx]) = 1]_vars

\* the members are destroyed
Destruction == dtor_pc = "join" /\ dtor_pc' = "destroyed"

\* C9, amended: an entry with a callback that leaves the three positions
\* through complete_active_delete has the callback completed exactly once,
\* with the remove-pipeline's result; destruction drops the entries left in the
\* pending and failed deques without completing their callbacks.
C9_DeliveredBeforeDrop ==
  [][/\ ~Destruction
        => \A ctx \in Contexts : Dropped(ctx) => work_queue'[ctx] = <<r'>>
     /\ Destruction => work_queue' = work_queue /\ AllEmpty']_vars

\* The waiter of an entry that failed for good has its result and the entry
\* is gone.
C9_Witness ==
  /\ pc = "loop"
  /\ r = EIO /\ error_result = ERROR_RESULT_COMPLETE
  /\ nwait = 1 /\ work_queue[1] = <<EIO>>
  /\ AllEmpty

\* ------------------------------------------------------------------ C10
C10_Silent ==
  /\ \A ctx \in Contexts :
       work_queue[ctx] = <<ECANCELED>> => work_queue'[ctx] = work_queue[ctx]
  /\ (pc = "process" /\ pc' # "process"
        /\ m_active_delete.on_delete = NullCtx)
     => work_queue' = work_queue

\* C10: a callback that cancel_waiter completed with -ECANCELED is installed
\* nowhere and receives nothing more, whatever happens to the entry; a
\* completion of an entry with no waiter installed fires nothing.
C10_CancelledStaysSilent ==
  /\ [](\A ctx \in Contexts :
          work_queue[ctx] = <<ECANCELED>> => ~Installed(ctx))
  /\ [][C10_Silent]_vars

\* The only waiter was cancelled and its entry has since been dropped by the
\* worker.
C10_Witness ==
  /\ nwait = 1 /\ work_queue[1] = <<ECANCELED>>
  /\ AllEmpty
  /\ dtor_pc = "idle"

\* ------------------------------------------------------------------ C11
\* the entry as an idempotent schedule call for id leaves it
Upgraded(info, id, ignore_orphaned) ==
  IF Identity(info) = id
    THEN [info EXCEPT !.ignore_orphaned = @ \/ ignore_orphaned]
    ELSE info

C11_Idempotent ==
  \A call \in ScheduleCalls :
    (/\ schedule_image_delete(call[1], call[2], call[3])
     /\ Present(<<call[1], call[2]>>))
    => /\ m_delete_queue' =
            [i \in DOMAIN m_delete_queue |->
               Upgraded(m_delete_queue[i], <<call[1], call[2]>>, call[3])]
       /\ m_failed_queue' =
            [i \in DOMAIN m_failed_queue |->
               Upgraded(m_failed_queue[i], <<call[1], call[2]>>, call[3])]
       /\ m_active_delete' =
            IF m_active_delete = NoDelete THEN NoDelete
            ELSE Upgraded(m_active_delete, <<call[1], call[2]>>, call[3])
       /\ UNCHANGED <<extern, m_running, pc, locals, timer_events, work_queue,
                      dtor_pc, nwait, locks>>

C11_Monotone ==
  \A e \in Entries :
    e.ignore_orphaned
    => \A f \in Entries' : Identity(f) = Identity(e) => f.ignore_orphaned

\* C11: schedule_image_delete for an identity that has an entry in one of the
\* three positions changes nothing but that entry's ignore_orphaned, which
\* becomes true when the call passes true; no step changes the ignore_orphaned
\* of an entry from true to false.
C11_IdempotentSchedule == [][C11_Idempotent /\ C11_Monotone]_vars

\* The entry in flight, which schedule calls can only have met in the active
\* slot since its retry, ignores orphans and has its waiter; another entry is
\* pending behind it.
C11_Witness ==
  /\ pc = "process"
  /\ m_active_delete.ignore_orphaned
  /\ m_active_delete.retries = 1
  /\ m_active_delete.on_delete # NullCtx
  /\ Len(m_delete_queue) = 1
  /\ ~m_delete_queue[1].ignore_orphaned

\* ------------------------------------------------------------------ C12
\* the locked region of enqueue_failed_delete runs
DeferStep == pc = "enqueue_failed" /\ pc' = "add_event"

\* retry_failed_deletions empties a failed deque that held entries
MigrationStep ==
  m_failed_queue # <<>> /\ m_failed_queue' = <<>> /\ dtor_pc' = dtor_pc

C12_Deferred ==
  /\ (/\ pc = "process" /\ pc' # pc
      /\ r' < 0 /\ r' # EBLACKLISTED /\ error_result' = ERROR_RESULT_RETRY)
     => pc' = "enqueue_failed" /\ UNCHANGED <<queues, work_queue>>
  /\ DeferStep
     => /\ r < 0 /\ r # EBLACKLISTED /\ error_result = ERROR_RESULT_RETRY
        /\ m_active_delete' = NoDelete
        /\ m_delete_queue' = m_delete_queue
        /\ IF m_active_delete.notify_on_failed_retry
             THEN /\ m_failed_queue' =
                       <<[m_active_delete EXCEPT !.error_code = r,
                                                 !.on_delete = NullCtx]>>
                         \o m_failed_queue
                  /\ work_queue' = Delivered(m_active_delete, r)
             ELSE /\ m_failed_queue' =
                       <<[m_active_delete EXCEPT !.error_code = r]>>
                         \o m_failed_queue
                  /\ work_queue' = work_queue
        /\ m_failed_queue # <<>> => timer_events' = 1
  /\ (pc = "add_event" /\ pc' = "loop" /\ was_empty) => timer_events' = 1

C12_Retried ==
  MigrationStep
  => \A i \in DOMAIN m_failed_queue :
       \E j \in DOMAIN m_delete_queue' :
         m_delete_queue'[j] = [m_failed_queue[i] EXCEPT !.retries = @ + 1]

C12_Success ==
  (/\ pc = "process" /\ pc' = "loop" /\ r' = 0
   /\ m_active_delete.on_delete # NullCtx)
  => work_queue'[m_active_delete.on_delete] = <<0>>

\* C12: a failure with a non-blacklisted error and classifier Other moves the
\* active entry to the front of the failed deque with error_code set to the
\* error, and a retry timer event is pending, the one of the entries already
\* in the failed deque or else the one enqueue_failed_delete registers before
\* it returns; a waiter installed with notify_on_failed_retry unset is not
\* completed and stays installed; the timer moves the entry to the pending
\* deque with retries one higher; an attempt that returns 0 while the waiter
\* is installed completes it once, with 0.
C12_DeferredRetry == [][C12_Deferred /\ C12_Retried /\ C12_Success]_vars

\* The second attempt of an entry is in flight: it failed once with -5, its
\* waiter, installed with notify_on_failed_retry unset, has received nothing.
C12_Witness ==
  /\ pc = "process"
  /\ m_active_delete.retries = 1
  /\ m_active_delete.error_code = EIO
  /\ m_active_delete.on_delete = 1
  /\ ~m_active_delete.notify_on_failed_retry
  /\ nwait = 1 /\ work_queue[1] = <<>>
  /\ m_delete_queue = <<>> /\ m_failed_queue = <<>> /\ timer_events = 0

\* ------------------------------------------------------------------ C13
\* the entry as cancel_waiter for id leaves it
Detached(info, id) ==
  IF Identity(info) = id THEN [info EXCEPT !.on_delete = NullCtx] ELSE info

\* the callback installed on the entry matching id, if any
WaiterOf(id) ==
  {e.on_delete : e \in {x \in Entries : Identity(x) = id}} \ {NullCtx}

C13_Frame ==
  \A id \in Identities :
    cancel_waiter(id[1], id[2])
    => /\ m_delete_queue' =
            [i \in DOMAIN m_delete_queue |-> Detached(m_delete_queue[i], id)]
       /\ m_failed_queue' =
            [i \in DOMAIN m_failed_queue |-> Detached(m_failed_queue[i], id)]
       /\ m_active_delete' =
            IF m_active_delete = NoDelete THEN NoDelete
            ELSE Detached(m_active_delete, id)
       /\ \A ctx \in Contexts :
            work_queue'[ctx] =
              IF ctx \in WaiterOf(id) THEN <<ECANCELED>> ELSE work_queue[ctx]
       /\ UNCHANGED <<extern, m_running, pc, locals, timer_events, dtor_pc, nwait,
                      locks>>
       /\ WaiterOf(id) = {} => UNCHANGED vars

\* C13: cancel_waiter leaves the entries of the three positions where they
\* are, in their order, and leaves the worker where it is; a callback
\* installed on the matching entry is completed once, with -ECANCELED, and
\* its slot is cleared; with no matching entry or no callback installed
\* nothing changes and nothing is completed.
C13_CancelWaiterFrame == [][C13_Frame]_vars

\* The only waiter was cancelled while its entry is in flight; the entry is
\* still in the active slot, its notify_on_failed_retry as the waiter set it.
C13_Witness ==
  /\ pc = "process"
  /\ nwait = 1 /\ work_queue[1] = <<ECANCELED>>
  /\ m_active_delete.on_delete = NullCtx
  /\ m_active_delete.notify_on_failed_retry
  /\ m_delete_queue = <<>> /\ m_failed_queue = <<>>

\* ------------------------------------------------------------------ C14
C14_Unknown ==
  \A id \in Identities, ctx \in Contexts, flag \in BOOLEAN :
    (/\ wait_for_scheduled_deletion(id[1], id[2], ctx, flag)
     /\ ~Present(id))
    => /\ work_queue' = [work_queue EXCEPT ![ctx] = <<0>>]
       /\ ~Installed(ctx)'
       /\ UNCHANGED <<queues, m_running, pc, locals, timer_events, dtor_pc,
                      locks>>

\* C14: wait_for_scheduled_deletion for an identity that has no entry in the
\* three positions completes the callback once, with 0, installs it nowhere
\* and leaves the positions and the callbacks of the entries as they are;
\* this is what a waiter gets that arrives after its deletion has completed.
C14_UnknownIdentity == [][C14_Unknown]_vars

\* The worker has just dropped an entry for good with -5, which its waiter
\* received; the second waiter received 0 and nothing is scheduled.
C14_Witness ==
  /\ pc = "loop"
  /\ r = EIO /\ error_result = ERROR_RESULT_COMPLETE
  /\ AllEmpty
  /\ nwait = 2
  /\ work_queue[1] = <<EIO>>
  /\ work_queue[2] = <<0>>

\* ------------------------------------------------------------------ C15
\* the worker holds m_delete_lock and is blocked on the timer lock
WorkerBlocked ==
  /\ m_delete_lock = "worker"
  /\ pc = "add_event" /\ was_empty
  /\ m_failed_timer_lock # "free"

\* the timer thread holds the timer lock and is blocked on m_delete_lock
TimerBlocked == m_failed_timer_lock = "timer" /\ m_delete_lock # "free"

\* C15: the worker never holds m_delete_lock and the timer lock together: it
\* holds m_delete_lock only in the locked region of enqueue_failed_delete,
\* which asks for no lock, and the timer lock only after that region, to
\* register the event; so the worker and the timer thread, which asks for
\* m_delete_lock with the timer lock held, are never blocked on each other.
C15_LockOrdering ==
  /\ ~(m_delete_lock = "worker" /\ m_failed_timer_lock = "worker")
  /\ m_delete_lock = "worker" => pc = "enqueue_failed"
  /\ m_failed_timer_lock = "worker" => pc = "add_event" /\ was_empty
  /\ ~(WorkerBlocked /\ TimerBlocked)

\* The timer thread holds the timer lock and waits for m_delete_lock, which
\* the worker holds in enqueue_failed_delete.
C15_Witness ==
  /\ m_failed_timer_lock = "timer"
  /\ m_delete_lock = "worker"
  /\ pc = "enqueue_failed"
  /\ m_failed_queue # <<>>

\* ------------------------------------------------------------------ C16
\* the step completes ctx: it takes ctx off the entry it was installed on, or
\* it is the wait_for_scheduled_deletion call that passes ctx and installs
\* it nowhere
Notified(ctx) ==
  \/ Installed(ctx) /\ ~Installed(ctx)'
  \/ nwait' = nwait + 1 /\ ctx = nwait + 1 /\ ~Installed(ctx)'

C16_Queues ==
  /\ \A ctx \in Contexts :
       Notified(ctx) => Len(work_queue'[ctx]) = Len(work_queue[ctx]) + 1
  /\ work_queue' # work_queue => on_finish' = on_finish

\* a callback runs in a step of the work queue's thread, which is no step of
\* a caller, of the worker or of a holder of a lock
C16_RunsOnWorkQueue ==
  on_finish' # on_finish
  => UNCHANGED <<m_running, queues, pc, locals, timer_events, work_queue,
                 dtor_pc, nwait, locks>>

\* a callback has run only with results queued for it, in their order
C16_RunsWhatWasQueued ==
  \A ctx \in Contexts :
    /\ Len(on_finish[ctx]) <= Len(work_queue[ctx])
    /\ on_finish[ctx] = SubSeq(work_queue[ctx], 1, Len(on_finish[ctx]))

\* C16: every notification (terminal result, RetryImmediately error, deferred
\* failure error, -ESTALE, -ECANCELED, the 0 of an unknown identity) queues
\* the caller's callback with the result on the work queue and runs nothing;
\* the callback runs later, in a step of the work queue's thread, which
\* holds no lock of the scheduler and is not the worker.
C16_CallbackFiringRule ==
  [](C16_RunsWhatWasQueued) /\ [][C16_Queues /\ C16_RunsOnWorkQueue]_vars

\* The first callback has run with -ESTALE; the second, installed with
\* notify_on_failed_retry set, is queued with the error of a deferred failure
\* and has not run, the worker being still in enqueue_failed_delete.
C16_Witness ==
  /\ on_finish[1] = <<ESTALE>>
  /\ work_queue[2] = <<EIO>>
  /\ on_finish[2] = <<>>
  /\ pc = "add_event"
  /\ m_failed_queue[1].notify_on_failed_retry
  /\ m_failed_queue[1].on_delete = NullCtx

\* ------------------------------------------------------------------ C17
\* the worker leaves the wait that follows a RetryImmediately failure
RetryWaitEnds == pc = "wait_retry" /\ pc' # pc

\* schedule_image_delete creates an entry
ScheduleCreates ==
  /\ Len(m_delete_queue') = Len(m_delete_queue) + 1
  /\ SubSeq(m_delete_queue', 2, Len(m_delete_queue')) = m_delete_queue
  /\ m_failed_queue' = m_failed_queue

\* the destructor signals the condition variable
ShutdownSignals == dtor_pc = "signal" /\ dtor_pc' = "join"

\* retry_failed_deletions, run by the timer thread, migrates the failed deque
TimerMigrates ==
  /\ m_failed_timer_lock = "timer" /\ m_failed_timer_lock' = "free"
  /\ m_failed_queue # <<>> /\ m_failed_queue' = <<>>

\* C17 as claimed: only a schedule_image_delete call that creates an entry
\* or the shutdown ends the wait; no timer-driven step does.
C17_OnlyScheduleOrShutdown ==
  [][RetryWaitEnds => (ScheduleCreates \/ ShutdownSignals)]_vars

\* C17, amended: the wait ends when the condition variable is signalled, by
\* a schedule_image_delete call that creates an entry, by the destructor, or
\* by retry_failed_deletions when the timer fires while the failed deque holds
\* an entry; each of the three ends it, and nothing else does.
C17_WakeSources ==
  [][/\ RetryWaitEnds
        => /\ pc' = "woken_retry"
           /\ ScheduleCreates \/ ShutdownSignals \/ TimerMigrates
     /\ (pc = "wait_retry"
          /\ (ScheduleCreates \/ ShutdownSignals \/ TimerMigrates))
        => pc' = "woken_retry"]_vars

\* The worker waited with the re-pushed entry alone in the pending deque and
\* was woken by the timer, which moved the entry of an earlier deferred
\* failure behind it.
C17_Witness ==
  /\ pc = "woken_retry"
  /\ dtor_pc = "idle"
  /\ Len(m_delete_queue) = 2
  /\ m_delete_queue[1].retries = 0 /\ m_delete_queue[1].error_code = 0
  /\ m_delete_queue[2].retries = 1
  /\ timer_events = 0

\* ------------------------------------------------------------------ C18
\* the callback of the timer event runs
RetryFailedDeletions ==
  m_failed_timer_lock = "timer" /\ m_failed_timer_lock' = "free"

\* the failed deque from its back to its front, retries one higher
Migrated(failed) ==
  [i \in 1..Len(failed) |->
     [failed[Len(failed) + 1 - i] EXCEPT !.retries = @ + 1]]

C18_Migration ==
  RetryFailedDeletions
  => /\ m_failed_queue' = <<>>
     /\ m_delete_queue' = m_delete_queue \o Migrated(m_failed_queue)
     /\ pc' = IF m_failed_queue = <<>> THEN pc
              ELSE IF pc = "wait_empty" THEN "woken_empty"
              ELSE IF pc = "wait_retry" THEN "woken_retry"
              ELSE pc
     /\ m_delete_lock = "free"
     /\ UNCHANGED <<m_active_delete, work_queue, m_running, locals, dtor_pc,
                    nwait, m_delete_lock>>

\* C18: one run of retry_failed_deletions is one step under m_delete_lock
\* that empties the failed deque, appends its entries to the back of the
\* pending deque, taken from the back of the failed deque first, each with
\* retries one higher and nothing else changed, leaves the entries that were
\* pending in front of them in their order, leaves the active slot and the
\* callbacks alone, and signals the condition variable; with the failed
\* deque empty it changes nothing.
C18_BulkRetryMigration == [][C18_Migration]_vars

\* The worker, parked on an empty pending deque, was woken by a migration of
\* two entries at once.
C18_Witness ==
  /\ pc = "woken_empty"
  /\ m_failed_queue = <<>>
  /\ Len(m_delete_queue) = 2
  /\ m_delete_queue[1].retries = 1 /\ m_delete_queue[2].retries = 1
  /\ timer_events = 0

\* ------------------------------------------------------------------ C19
\* the worker is at line 327, where add_event_after reads m_failed_interval
ReadsInterval ==
  pc = "add_event" /\ was_empty /\ m_failed_timer_lock = "worker"

\* C19: the worker reads m_failed_interval with m_delete_lock held, and a
\* write of m_failed_interval is a step of a thread that has taken
\* m_delete_lock: it happens neither while another thread holds the lock nor
\* while the worker is registering the timer event.
C19_IntervalGuarded ==
  /\ [](ReadsInterval => m_delete_lock = "worker")
  /\ [][m_failed_interval' # m_failed_interval
        => m_delete_lock = "free" /\ ~ReadsInterval]_vars

\* ------------------------------------------------------------------ C20
Failed(id) ==
  \E i \in DOMAIN m_failed_queue : match(m_failed_queue[i], id[1], id[2])

\* the worker has released m_delete_lock in enqueue_failed_delete and has
\* not yet registered the event
Registering == pc = "add_event" /\ was_empty

C20_TimerOutstanding ==
  m_failed_queue # <<>> => (timer_events > 0 \/ Registering)

\* C20: while the failed deque holds an entry a retry timer event is
\* outstanding, or the worker is between the release of m_delete_lock and
\* the registration of the event; so, with the timer service firing every
\* registered event, every entry of the failed deque is moved to the pending
\* deque.
C20_NoStrandedFailures ==
  /\ [](Alive /\ C20_TimerOutstanding)
  /\ \A id \in Identities : Failed(id) ~> Pending(id)

\* The first deferred failure: the entry is in the failed deque, no event is
\* registered yet, the worker is about to register one.
C20_Witness ==
  /\ Registering
  /\ timer_events = 0
  /\ m_failed_timer_lock = "free"
  /\ Len(m_failed_queue) = 1
  /\ m_delete_queue # <<>>

====
